---------------------------- MODULE Spec2Model ----------------------------
(***************************************************************************)
(* Model of the autonav planner node (autonav_nav/src/astar.py), of the    *)
(* configuration registers (autonav_libs/__init__.py) and of the IMU       *)
(* node's worker thread (autonav_serial/src/imu.py).                       *)
(*                                                                         *)
(* Numbers.  The program computes in IEEE doubles; the model computes in   *)
(* integers:                                                               *)
(*   - A* scores (g, h, f) are in 1/1000 of a grid step (SCALE), so one    *)
(*     orthogonal step is 1000, one diagonal step is 1414 and map[c]/10    *)
(*     is map[c]*100;                                                      *)
(*   - angles are in milliradians, latitude and longitude in 1e-7 degree,  *)
(*     ground distances in centimetres, frontier scores in tenths.         *)
(* Grids.  The program's grid is MAP_RES x MAP_RES with MAP_RES = 80; the  *)
(* planner loop is checked on a scaled-down MAP_RES (a bound of the model),*)
(* a row-major function 0..MAP_RES*MAP_RES-1 -> cost, like msg.data.       *)
(***************************************************************************)
EXTENDS Integers, Sequences, FiniteSets, TLC

\* Python's None and a present value: the empty and the one-element tuple
None == <<>>
Some(v) == <<v>>

Abs(n) == IF n < 0 THEN 0 - n ELSE n
Max(a, b) == IF a >= b THEN a ELSE b
Sign(n) == IF n < 0 THEN 0 - 1 ELSE 1

\* math.sqrt on a non-negative integer, rounded down (bisection).
RECURSIVE ISqrtBetween(_, _, _)
ISqrtBetween(n, lo, hi) ==
    IF lo >= hi THEN lo
    ELSE LET mid == (lo + hi + 1) \div 2
         IN  IF mid * mid <= n THEN ISqrtBetween(n, mid, hi)
             ELSE ISqrtBetween(n, lo, mid - 1)

ISqrt(n) == ISqrtBetween(n, 0, 46340)

-----------------------------------------------------------------------------
(* Bounds of the model *)

\* the counts of published IMU and GPS messages stop growing here
MaxPublished == 3

\* side of the square grid the planner loop works on (80 in the program)
MAP_RES == 6
\* side of the grids the frontier expansion is stepped through cell by cell
FrontierRes == 7
\* width and height of the grids find_path_to_point is called with directly
WallWidth == 8
WallHeight == 3
CostWidth == 4
CostHeight == 3

-----------------------------------------------------------------------------
(* Program constants *)

\* fixed-point unit of the A* scores
SCALE == 1000
\* getG's "Infinity" (1000000000 in the program), in the same unit as the scores
Infinity == 1000000000
\* depth limit of the frontier expansion
MaxDepth == 50
\* a cell with cost >= 50 is an obstacle for the frontier expansion
ObstacleCost == 50
\* pi and 2*pi in milliradians (2*pi is kept equal to pi + pi)
Pi == 3142
TwoPi == 6284
\* MAP_RES as the program sets it
FullRes == 80


-----------------------------------------------------------------------------
(* A* search: AStarNode.find_path_to_point *)

\* d[k] = v on a Python dict represented as a function
Put(f, k, v) == (k :> v) @@ f

InSeq(e, seq) == \E i \in 1..Len(seq) : seq[i] = e

\* list.remove(e): drops the first occurrence
RemoveFirst(seq, e) ==
    LET i == CHOOSE j \in 1..Len(seq) : seq[j] = e /\ \A k \in 1..(j - 1) : seq[k] # e
    IN  SubSeq(seq, 1, i - 1) \o SubSeq(seq, i + 1, Len(seq))

\* the (x, y, dist) triples, in the order the two nested range(-1, 2) loops build them
search_dirs ==
    << <<0 - 1, 0 - 1, 1414>>, <<0 - 1, 0, 1000>>, <<0 - 1, 1, 1414>>,
       <<0, 0 - 1, 1000>>,                         <<0, 1, 1000>>,
       <<1, 0 - 1, 1414>>,     <<1, 0, 1000>>,     <<1, 1, 1414>> >>

\* math.sqrt(n) in 1/SCALE for the small n the grids of the model produce,
\* evaluated once
SqrtOf == [n \in 0..200 |-> ISqrt(SCALE * SCALE * n)]

\* h(point): Euclidean distance to the goal (beyond 44 cells the root is
\* taken to 1/100 of a step, which keeps the radicand within 32 bits)
h(point, goal) ==
    LET n == (goal[1] - point[1]) * (goal[1] - point[1])
             + (goal[2] - point[2]) * (goal[2] - point[2])
    IN  IF n \in DOMAIN SqrtOf THEN SqrtOf[n]
        ELSE IF n <= 2000 THEN ISqrt(SCALE * SCALE * n)
        ELSE 10 * ISqrt((SCALE \div 10) * (SCALE \div 10) * n)

\* d(to_pt, dist): step length plus a tenth of the cost of the cell stepped into
d(map, width, to_pt, dist) == dist + map[to_pt[2] * width + to_pt[1]] * (SCALE \div 10)

\* getG(pt): the sentinel for a cell without a score.  (The program also stores
\* the sentinel; the store is overwritten at once because every tentative
\* score is below the sentinel.)
getG(gScore, pt) == IF pt \in DOMAIN gScore THEN gScore[pt] ELSE Infinity

\* order of heapq on the (fScore, (x, y)) tuples
HeapLess(a, b) ==
    \/ a[1] < b[1]
    \/ a[1] = b[1] /\ a[2][1] < b[2][1]
    \/ a[1] = b[1] /\ a[2][1] = b[2][1] /\ a[2][2] < b[2][2]

HeapMin(heap) == CHOOSE e \in heap : \A o \in heap : o = e \/ HeapLess(e, o)

\* reconstruct_path whose walk stops one predecessor early: the start is not appended
RECURSIVE reconstruct_path_DropsStart(_, _)
reconstruct_path_DropsStart(path, current) ==
    IF current \in DOMAIN path /\ path[current] \in DOMAIN path
    THEN Append(reconstruct_path_DropsStart(path, path[current]), current)
    ELSE <<current>>

\* reconstruct_path without the final "[::-1]": the cells from the goal to the start
RECURSIVE reconstruct_path_Unreversed(_, _)
reconstruct_path_Unreversed(path, current) ==
    IF current \in DOMAIN path
    THEN <<current>> \o reconstruct_path_Unreversed(path, path[current])
    ELSE <<current>>

\* reconstruct_path: walk the predecessors back to the start, reversed
RECURSIVE reconstruct_path(_, _)
reconstruct_path(path, current) ==
    IF current \in DOMAIN path
    THEN Append(reconstruct_path(path, path[current]), current)
    ELSE <<current>>

\* the search's local variables before the while loop; reopened records the
\* cells appended to open_set after they had been removed from it
AStarStart(start) ==
    [open_set     |-> <<start>>,
     reopened     |-> {},
     next_current |-> {<<SCALE, start>>},
     path         |-> [c \in {} |-> start],
     gScore       |-> [c \in {start} |-> 0],
     status       |-> "running",
     cells        |-> <<>>]

\* the loop body with the heappush moved out of "if neighbor not in open_set":
\* a cell whose score improves while it is open gets a second heap entry
Relax_AlwaysPushes(s, current, dir, goal, map, width, height) ==
    LET neighbor == <<current[1] + dir[1], current[2] + dir[2]>>
    IN  IF neighbor[1] < 0 \/ neighbor[1] >= width \/ neighbor[2] < 0 \/ neighbor[2] >= height
        THEN s
        ELSE LET tentGScore == getG(s.gScore, current) + d(map, width, neighbor, dir[3])
             IN  IF tentGScore < getG(s.gScore, neighbor)
                 THEN [s EXCEPT
                         !.path = Put(@, neighbor, current),
                         !.gScore = Put(@, neighbor, tentGScore),
                         !.open_set = IF InSeq(neighbor, @) THEN @ ELSE Append(@, neighbor),
                         !.reopened = IF neighbor \in DOMAIN s.gScore /\ ~InSeq(neighbor, s.open_set)
                                      THEN @ \cup {neighbor} ELSE @,
                         !.next_current = @ \cup {<<tentGScore + h(neighbor, goal), neighbor>>}]
                 ELSE s

\* the body of "for delta_x, delta_y, dist in search_dirs" for one direction
Relax(s, current, dir, goal, map, width, height) ==
    LET neighbor == <<current[1] + dir[1], current[2] + dir[2]>>
    IN  IF neighbor[1] < 0 \/ neighbor[1] >= width \/ neighbor[2] < 0 \/ neighbor[2] >= height
        THEN s
        ELSE LET tentGScore == getG(s.gScore, current) + d(map, width, neighbor, dir[3])
             IN  IF tentGScore < getG(s.gScore, neighbor)
                 THEN [s EXCEPT
                         !.path = Put(@, neighbor, current),
                         !.gScore = Put(@, neighbor, tentGScore),
                         !.open_set = IF InSeq(neighbor, @) THEN @ ELSE Append(@, neighbor),
                         !.reopened = IF neighbor \in DOMAIN s.gScore /\ ~InSeq(neighbor, s.open_set)
                                      THEN @ \cup {neighbor} ELSE @,
                         !.next_current =
                             IF InSeq(neighbor, s.open_set) THEN @
                             ELSE @ \cup {<<tentGScore + h(neighbor, goal), neighbor>>}]
                 ELSE s

\* the for loop from direction i on (the state after one direction is bound
\* as a value before the next direction is taken)
RECURSIVE RelaxFrom(_, _, _, _, _, _, _)
RelaxFrom(s, current, i, goal, map, width, height) ==
    IF i > Len(search_dirs) THEN s
    ELSE CHOOSE r \in {RelaxFrom(t, current, i + 1, goal, map, width, height) :
                         t \in {Relax(s, current, search_dirs[i], goal, map, width, height)}} :
             TRUE

\* one iteration of "while len(open_set) != 0", or the fall off its end
AStarStep(s, goal, map, width, height) ==
    IF Len(s.open_set) = 0
    THEN [s EXCEPT !.status = "none"]
    ELSE IF s.next_current = {}
    THEN [s EXCEPT !.status = "raised"]
    ELSE LET top == HeapMin(s.next_current)
             current == top[2]
             popped == [s EXCEPT !.next_current = @ \ {top}]
         IN  IF current = goal
             THEN [popped EXCEPT !.status = "path",
                                 !.cells = reconstruct_path(s.path, current)]
             ELSE IF ~InSeq(current, s.open_set)
             THEN [popped EXCEPT !.status = "raised"]
             ELSE RelaxFrom([popped EXCEPT !.open_set = RemoveFirst(@, current)],
                            current, 1, goal, map, width, height)

RECURSIVE AStarRun(_, _, _, _, _)
AStarRun(s, goal, map, width, height) ==
    IF s.status # "running" THEN s
    ELSE AStarRun(AStarStep(s, goal, map, width, height), goal, map, width, height)

\* find_path_to_point: status "path" with the cells, "none" for a None return,
\* "raised" for an exception
find_path_to_point(start, goal, map, width, height) ==
    LET s == AStarRun(AStarStart(start), goal, map, width, height)
    IN  [status |-> s.status, cells |-> s.cells]

-----------------------------------------------------------------------------
(* Angles and ground distances *)

\* math.atan of z/1000 for 0 <= z <= 1000, in milliradians
\* (z * (pi/4 + 0.273 * (1 - z)), within 4 milliradians of the arc tangent)
AtanUnit(z) == (z * (785398 + 273 * (1000 - z))) \div 1000000

\* operands of atan2 brought into the range where z * 1000 cannot overflow
RECURSIVE Shrink(_)
Shrink(v) == IF Abs(v[1]) > 1000000 \/ Abs(v[2]) > 1000000
             THEN Shrink(<<v[1] \div 1000, v[2] \div 1000>>)
             ELSE v

\* math.atan2(y, x) in milliradians, in -Pi..Pi
atan2(y0, x0) ==
    LET v == Shrink(<<Abs(y0), Abs(x0)>>)
        ay == v[1]
        ax == v[2]
        a == IF ax = 0 /\ ay = 0 THEN 0
             ELSE IF ax >= ay THEN AtanUnit((ay * 1000) \div ax)
             ELSE (Pi \div 2) - AtanUnit((ax * 1000) \div ay)
        r == IF x0 >= 0 THEN a ELSE Pi - a
    IN  IF y0 < 0 THEN 0 - r ELSE r

\* get_angle_diff without the shift by pi: the delta wrapped into [0, 2*pi)
get_angle_diff_Unsigned(to_angle, from_angle) ==
    LET delta == to_angle - from_angle
    IN  delta % TwoPi

\* get_angle_diff(to_angle, from_angle), milliradians
get_angle_diff(to_angle, from_angle) ==
    LET delta == to_angle - from_angle
    IN  ((delta + Pi) % TwoPi) - Pi

\* degrees (in 1e-7 degree) times metres per degree (k, in millimetres per
\* 1e-7 degree), in centimetres
Metres(deg, k) ==
    IF Abs(deg) > 1000000 THEN Sign(deg) * ((Abs(deg) \div 1000) * k)
    ELSE Sign(deg) * ((Abs(deg) * k) \div 1000)

\* (next_waypoint[0] - self.position.latitude) * 111086.2
north_to_gps(next_waypoint, pos) == Metres(next_waypoint[1] - pos.latitude, 1111)

\* (self.position.longitude - next_waypoint[1]) * 81978.2
west_to_gps(next_waypoint, pos) == Metres(pos.longitude - next_waypoint[2], 820)

\* math.atan2(west_to_gps, north_to_gps) % (2 * math.pi)
heading_to_gps(next_waypoint, pos) ==
    atan2(west_to_gps(next_waypoint, pos), north_to_gps(next_waypoint, pos)) % TwoPi

\* math.sqrt(north_to_gps ** 2 + west_to_gps ** 2), centimetres
RECURSIVE Hypot(_, _)
Hypot(n, w) ==
    IF Abs(n) > 30000 \/ Abs(w) > 30000
    THEN 10 * Hypot(Abs(n) \div 10, Abs(w) \div 10)
    ELSE ISqrt(n * n + w * w)

distance_to(next_waypoint, pos) ==
    Hypot(north_to_gps(next_waypoint, pos), west_to_gps(next_waypoint, pos))

-----------------------------------------------------------------------------
(* Goal selection: the frontier expansion of AStarNode.onConfigSpaceReceived *)

\* (MAP_RES // 2, MAP_RES - 4): the vehicle's cell on a grid of side res
RobotPos(res) == <<res \div 2, res - 4>>

robot_pos == RobotPos(MAP_RES)

\* "for pos in curfrontier": the iteration order of a Python set is fixed by the
\* interpreter, not by the program; this is the row-major order
RECURSIVE IterOrder(_, _)
IterOrder(res, S) ==
    IF S = {} THEN <<>>
    ELSE LET first == CHOOSE c \in S :
                         \A o \in S : c[1] + res * c[2] <= o[1] + res * o[2]
         IN  <<first>> \o IterOrder(res, S \ {first})

\* the waypoint penalty of a cell, in tenths of a degree:
\* abs(get_angle_diff(theta + atan2(MAP_RES // 2 - x, MAP_RES - y), heading_to_gps)) * 180 / pi
heading_err_to_gps(res, theta, pos, heading) ==
    (Abs(get_angle_diff(theta + atan2(res \div 2 - pos[1], res - pos[2]), heading))
        * 18000) \div 31416

\* CellCost with y for MAP_RES - y: rows near the vehicle score higher
CellCost_PrefersNear(res, pos, depth, bias) ==
    pos[2] * 13 + depth * 22
    - (IF bias.active
       THEN Max(heading_err_to_gps(res, bias.theta, pos, bias.heading), 100)
       ELSE 0)

\* the score of a frontier cell, in tenths; bias.active says that a waypoint is queued
CellCost(res, pos, depth, bias) ==
    (res - pos[2]) * 13 + depth * 22
    - (IF bias.active
       THEN Max(heading_err_to_gps(res, bias.theta, pos, bias.heading), 100)
       ELSE 0)

\* VisitCell with "cost >= best_pos_cost": a later cell of equal score replaces the goal
VisitCell_TiesReplace(res, f, pos, depth, grid_data, bias) ==
    LET x == pos[1]
        y == pos[2]
        cost == CellCost(res, pos, depth, bias)
        better == cost >= f.best_pos_cost
        explored == f.explored \cup {x + res * y}
        up == IF y > 1 /\ grid_data[x + res * (y - 1)] < ObstacleCost
                 /\ (x + res * (y - 1)) \notin explored
              THEN {<<x, y - 1>>} ELSE {}
        right == IF x < res - 1 /\ grid_data[x + 1 + res * y] < ObstacleCost
                    /\ (x + 1 + res * y) \notin explored
                 THEN {<<x + 1, y>>} ELSE {}
        left == IF x > 0 /\ grid_data[x - 1 + res * y] < ObstacleCost
                   /\ (x - 1 + res * y) \notin explored
                THEN {<<x - 1, y>>} ELSE {}
    IN  IF pos \notin f.frontier
        THEN [f EXCEPT !.raised = TRUE]
        ELSE [f EXCEPT !.best_pos_cost = IF better THEN cost ELSE @,
                       !.temp_best_pos = IF better THEN pos ELSE @,
                       !.frontier = (@ \ {pos}) \cup up \cup right \cup left,
                       !.explored = explored]

\* VisitCell without the "not in explored" tests of lines 267-273
VisitCell_NoExploredTest(res, f, pos, depth, grid_data, bias) ==
    LET x == pos[1]
        y == pos[2]
        cost == CellCost(res, pos, depth, bias)
        better == cost > f.best_pos_cost
        explored == f.explored \cup {x + res * y}
        up == IF y > 1 /\ grid_data[x + res * (y - 1)] < ObstacleCost
              THEN {<<x, y - 1>>} ELSE {}
        right == IF x < res - 1 /\ grid_data[x + 1 + res * y] < ObstacleCost
                 THEN {<<x + 1, y>>} ELSE {}
        left == IF x > 0 /\ grid_data[x - 1 + res * y] < ObstacleCost
                THEN {<<x - 1, y>>} ELSE {}
    IN  IF pos \notin f.frontier
        THEN [f EXCEPT !.raised = TRUE]
        ELSE [f EXCEPT !.best_pos_cost = IF better THEN cost ELSE @,
                       !.temp_best_pos = IF better THEN pos ELSE @,
                       !.frontier = (@ \ {pos}) \cup up \cup right \cup left,
                       !.explored = explored]

\* the body of "for pos in curfrontier" for one cell, on a grid of side res
\* (the literal 79 of line 270 is MAP_RES - 1)
VisitCell(res, f, pos, depth, grid_data, bias) ==
    LET x == pos[1]
        y == pos[2]
        cost == CellCost(res, pos, depth, bias)
        better == cost > f.best_pos_cost
        explored == f.explored \cup {x + res * y}
        up == IF y > 1 /\ grid_data[x + res * (y - 1)] < ObstacleCost
                 /\ (x + res * (y - 1)) \notin explored
              THEN {<<x, y - 1>>} ELSE {}
        right == IF x < res - 1 /\ grid_data[x + 1 + res * y] < ObstacleCost
                    /\ (x + 1 + res * y) \notin explored
                 THEN {<<x + 1, y>>} ELSE {}
        left == IF x > 0 /\ grid_data[x - 1 + res * y] < ObstacleCost
                   /\ (x - 1 + res * y) \notin explored
                THEN {<<x - 1, y>>} ELSE {}
    IN  IF pos \notin f.frontier
        THEN [f EXCEPT !.raised = TRUE]
        ELSE [f EXCEPT !.best_pos_cost = IF better THEN cost ELSE @,
                       !.temp_best_pos = IF better THEN pos ELSE @,
                       !.frontier = (@ \ {pos}) \cup up \cup right \cup left,
                       !.explored = explored]

RECURSIVE VisitFrom(_, _, _, _, _, _, _)
VisitFrom(res, f, curfrontier, i, depth, grid_data, bias) ==
    IF i > Len(curfrontier) \/ f.raised THEN f
    ELSE VisitFrom(res, VisitCell(res, f, curfrontier[i], depth, grid_data, bias),
                   curfrontier, i + 1, depth, grid_data, bias)

\* "while depth < 50 and len(frontier) > 0"
RECURSIVE Expand(_, _, _, _, _)
Expand(res, f, depth, grid_data, bias) ==
    IF depth < MaxDepth /\ f.frontier # {} /\ ~f.raised
    THEN Expand(res, VisitFrom(res, f, IterOrder(res, f.frontier), 1, depth, grid_data, bias),
                depth + 1, grid_data, bias)
    ELSE f

\* the local variables of the frontier expansion as lines 210-214 set them
FrontierStart(res) ==
    [frontier |-> {RobotPos(res)}, explored |-> {},
     best_pos_cost |-> 0 - 10000, temp_best_pos |-> RobotPos(res),
     raised |-> FALSE]

\* the frontier expansion from its initial values (lines 210-214) to its end
SelectGoal(res, grid_data, bias) ==
    Expand(res, FrontierStart(res), 0, grid_data, bias)

\* [0] * len(msg.data)
ZeroGridOf(res) == [i \in 0..(res * res - 1) |-> 0]

ZeroGrid == ZeroGridOf(MAP_RES)

\* math.sqrt(north_to_gps ** 2 + west_to_gps ** 2) <= pop distance (centimetres)
Reached(next_waypoint, pos, pop_distance) ==
    LET n == north_to_gps(next_waypoint, pos)
        w == west_to_gps(next_waypoint, pos)
    IN  /\ Abs(n) <= pop_distance
        /\ Abs(w) <= pop_distance
        /\ n * n + w * w <= pop_distance * pop_distance

\* the PathingDebug message of lines 235-246
DebugMsg(wpts, pos) ==
    [desired_heading |-> heading_to_gps(wpts[1], pos),
     desired_latitude |-> wpts[1][1],
     desired_longitude |-> wpts[1][2],
     distance_to_destination |-> distance_to(wpts[1], pos),
     waypoints |-> wpts]

\* the queue after every leading waypoint within the pop distance is dropped
RECURSIVE DropReached(_, _, _)
DropReached(wpts, pos, pop_distance) ==
    IF Len(wpts) > 0 /\ Reached(wpts[1], pos, pop_distance)
    THEN DropReached(Tail(wpts), pos, pop_distance)
    ELSE wpts

\* ProcessGrid with "while" for the "if" of line 225: pops every waypoint in reach
ProcessGrid_PopsAll(msg_data, pos, wpts, cfg) ==
    LET grid_data == IF cfg.use_waypoints THEN ZeroGrid ELSE msg_data
        remaining == DropReached(wpts, pos, cfg.pop_distance)
        bias == IF Len(remaining) > 0
                THEN [active |-> TRUE, theta |-> pos.theta,
                      heading |-> heading_to_gps(remaining[1], pos)]
                ELSE [active |-> FALSE, theta |-> 0, heading |-> 0]
        f == SelectGoal(MAP_RES, grid_data, bias)
    IN  [popped |-> Len(remaining) < Len(wpts),
         waypoints |-> remaining,
         debug |-> IF Len(remaining) > 0 THEN Some(DebugMsg(remaining, pos)) ELSE None,
         cost_map |-> grid_data,
         best_pos |-> f.temp_best_pos,
         raised |-> f.raised]

\* ProcessGrid without lines 216-217: the received costs are used under the flag too
ProcessGrid_IgnoresFlag(msg_data, pos, wpts, cfg) ==
    LET popped == Len(wpts) > 0 /\ Reached(wpts[1], pos, cfg.pop_distance)
        remaining == IF popped THEN Tail(wpts) ELSE wpts
        bias == IF Len(remaining) > 0
                THEN [active |-> TRUE, theta |-> pos.theta,
                      heading |-> heading_to_gps(remaining[1], pos)]
                ELSE [active |-> FALSE, theta |-> 0, heading |-> 0]
        f == SelectGoal(MAP_RES, msg_data, bias)
    IN  [popped |-> popped,
         waypoints |-> remaining,
         debug |-> IF Len(remaining) > 0 THEN Some(DebugMsg(remaining, pos)) ELSE None,
         cost_map |-> msg_data,
         best_pos |-> f.temp_best_pos,
         raised |-> f.raised]

\* what one processed grid update computes from the message, the stored pose,
\* the queue and the configuration (lines 207-278)
ProcessGrid(msg_data, pos, wpts, cfg) ==
    LET grid_data == IF cfg.use_waypoints THEN ZeroGrid ELSE msg_data
        popped == Len(wpts) > 0 /\ Reached(wpts[1], pos, cfg.pop_distance)
        remaining == IF popped THEN Tail(wpts) ELSE wpts
        bias == IF Len(remaining) > 0
                THEN [active |-> TRUE, theta |-> pos.theta,
                      heading |-> heading_to_gps(remaining[1], pos)]
                ELSE [active |-> FALSE, theta |-> 0, heading |-> 0]
        f == SelectGoal(MAP_RES, grid_data, bias)
    IN  [popped |-> popped,
         waypoints |-> remaining,
         debug |-> IF Len(remaining) > 0 THEN Some(DebugMsg(remaining, pos)) ELSE None,
         cost_map |-> grid_data,
         best_pos |-> f.temp_best_pos,
         raised |-> f.raised]

\* pathToGlobalPose(robot, pp0, pp1): millimetres ahead and to the left
pathToGlobalPose(pp) ==
    <<((MAP_RES - pp[2]) * 2750) \div MAP_RES,
      Sign(MAP_RES \div 2 - pp[1]) * ((Abs(MAP_RES \div 2 - pp[1]) * 3000) \div MAP_RES)>>

-----------------------------------------------------------------------------
(* Inputs of find_path_to_point when it is checked on its own *)

Cells(width, height) == (0..(width - 1)) \X (0..(height - 1))

Index(width, c) == c[2] * width + c[1]

\* the in-bounds 8-neighbours of a cell
Neighbours(c, width, height) ==
    {n \in Cells(width, height) : n # c /\ Abs(n[1] - c[1]) <= 1 /\ Abs(n[2] - c[2]) <= 1}

\* a row-major grid that is 0 except on the cells of "cost", a function cell -> cost
GridOf(width, height, cost) ==
    [i \in 0..(width * height - 1) |->
        LET c == <<i % width, i \div width>>
        IN  IF c \in DOMAIN cost THEN cost[c] ELSE 0]

WallCosts == {50, 100}
WallRow == WallHeight \div 2

\* a wall of obstacle cells across row WallRow except a gap of two cells at
\* x = gap, gap + 1; the start is below the wall, the goal above it
WallGrid(gap, cost) ==
    GridOf(WallWidth, WallHeight,
           [c \in {w \in Cells(WallWidth, WallHeight) :
                      w[2] = WallRow /\ w[1] # gap /\ w[1] # gap + 1} |-> cost])

WallCalls ==
    {[family |-> "wall", start |-> <<sx, WallHeight - 1>>, goal |-> <<gx, 0>>,
      map |-> WallGrid(gap, cost), width |-> WallWidth, height |-> WallHeight] :
        sx \in 0..(WallWidth - 1), gx \in 0..(WallWidth - 1),
        gap \in 0..(WallWidth - 2), cost \in WallCosts}

\* every in-bounds neighbour of the goal is an obstacle cell, every other cell is
\* free; the start is neither the goal nor one of the neighbours
SurroundCalls ==
    {cl \in {[family |-> "surround", start |-> st, goal |-> gl,
              map |-> GridOf(CostWidth, CostWidth,
                             [c \in Neighbours(gl, CostWidth, CostWidth) |-> cost]),
              width |-> CostWidth, height |-> CostWidth] :
                st \in Cells(CostWidth, CostWidth), gl \in Cells(CostWidth, CostWidth),
                cost \in WallCosts} :
        cl.start # cl.goal /\ cl.start \notin Neighbours(cl.goal, CostWidth, CostWidth)}

\* passable grids: at most two cells with a soft cost, every other cell 0
SoftCosts == {10, 40}

CostCalls ==
    {[family |-> "cost", start |-> st, goal |-> <<0, 0>>,
      map |-> GridOf(CostWidth, CostHeight, [c \in {a, b} |-> cost]),
      width |-> CostWidth, height |-> CostHeight] :
        st \in Cells(CostWidth, CostHeight),
        a \in Cells(CostWidth, CostHeight), b \in Cells(CostWidth, CostHeight),
        cost \in SoftCosts}
    \cup
    {[family |-> "cost", start |-> st, goal |-> <<0, 0>>,
      map |-> GridOf(CostWidth, CostHeight, [c \in {} |-> 0]),
      width |-> CostWidth, height |-> CostHeight] :
        st \in Cells(CostWidth, CostHeight)}

\* grids whose cells all have the same passable cost, every start and every goal
\* (the start may be the goal)
UniformCosts == {0, 10, 40}

UniformCalls ==
    {[family |-> "uniform", start |-> st, goal |-> gl,
      map |-> [i \in 0..(CostWidth * CostHeight - 1) |-> cost],
      width |-> CostWidth, height |-> CostHeight] :
        st \in Cells(CostWidth, CostHeight), gl \in Cells(CostWidth, CostHeight),
        cost \in UniformCosts}

\* grids one cell wider, with a soft cost on the goal and on one more cell,
\* every start
GoalCostCalls ==
    {[family |-> "goalcost", start |-> st, goal |-> <<0, 0>>,
      map |-> GridOf(CostWidth + 1, CostHeight, [c \in {<<0, 0>>, a} |-> cost]),
      width |-> CostWidth + 1, height |-> CostHeight] :
        st \in Cells(CostWidth + 1, CostHeight), a \in Cells(CostWidth + 1, CostHeight),
        cost \in SoftCosts}

Calls == WallCalls \cup SurroundCalls \cup CostCalls \cup UniformCalls \cup GoalCostCalls

-----------------------------------------------------------------------------
(* The planner node: state *)

SystemStates == {"DISABLED", "AUTONOMOUS", "MANUAL"}
SystemModes == {"SIMULATION", "COMPETITION", "PRACTICE"}

\* the three route tables as written in the source (lines 38-55), in 1e-7 degree
RouteTables ==
    [competition_waypoints |->
       << << <<426682697, 0 - 832193403>>, <<426681206, 0 - 832193606>>,
             <<426680766, 0 - 832193592>>, <<426679277, 0 - 832193276>> >>,
          << <<426679277, 0 - 832193276>>, <<426680766, 0 - 832193592>>,
             <<426681206, 0 - 832193606>>, <<426682697, 0 - 832193403>> >> >>,
     practice_waypoints |->
       << << <<426682220, 0 - 832184720>>, <<426680860, 0 - 832184456>>,
             <<426679601, 0 - 832184327>> >>,
          << <<426679601, 0 - 832184327>>, <<426680860, 0 - 832184456>>,
             <<426682220, 0 - 832184720>> >>,
          << <<352104852, 0 - 974419300>>, <<352104819, 0 - 974423302>>,
             <<352106063, 0 - 974423293>>, <<352106045, 0 - 974421059>>,
             <<352104852, 0 - 974419300>> >> >>,
     simulation_waypoints |->
       << << <<351949692, 0 - 974385529>>, <<351949882, 0 - 974385910>>,
             <<351949539, 0 - 974388199>>, <<351949692, 0 - 974389420>>,
             <<351949310, 0 - 974390259>>, <<351949005, 0 - 974390259>>,
             <<351947632, 0 - 974390182>>, <<351947288, 0 - 974390182>>,
             <<351945915, 0 - 974390259>> >>,
          << <<351945915, 0 - 974390259>>, <<351947288, 0 - 974390182>>,
             <<351947632, 0 - 974390182>>, <<351949005, 0 - 974390259>> >>,
          << <<351947441, 0 - 974385300>>, <<351947479, 0 - 974386368>>,
             <<351948471, 0 - 974386597>>, <<351949425, 0 - 974387588>> >> >>]

\* the table getWaypointsForDirection indexes for a system mode
TableOf(mode) ==
    IF mode = "SIMULATION" THEN "simulation_waypoints"
    ELSE IF mode = "COMPETITION" THEN "competition_waypoints"
    ELSE "practice_waypoints"

VARIABLES
    position,       \* self.position: None or Some([latitude, longitude, theta])
    imu,            \* self.imu: None or Some(yaw of the last IMU message, degrees)
    cost_map,       \* global cost_map: None or Some(grid cached by the last processed grid update)
    best_pos,       \* global best_pos: the cached goal cell
    route_tables,   \* the three module-level route tables (Python lists, hence mutable)
    waypoints,      \* global waypoints: the list object the name is bound to
    device,         \* the node's device state
    system,         \* the system state the node sees: [state, mode]
    config,         \* the configuration registers the node reads
    out,            \* what the last handler published: [path, debug]
    event,          \* the last handler that ran
    raised,         \* an exception left a handler (the process has ended)
    progress,       \* history since startup or the last reset: "reset", then "pose"
                    \* after a pose update, then "grid" after a processed grid update
    session,        \* history since startup or the last mode exit: "idle", then
                    \* "entered" after the mode entered autonomous, then "active"
                    \* after a processed grid update
    goal_of_grid,   \* history: None, or Some(goal) written together with the cached
                    \* grid (lines 277-278); cleared with the grid (line 95)
    call,           \* the arguments of the find_path_to_point call under check
    search,         \* the local variables of that call
    scan,           \* the local variables of the frontier expansion under check
    conbus,         \* the Conbus instance under check (autonav_libs)
    worker          \* the IMU node and its worker thread under check (autonav_serial)

nodeVars == <<position, imu, cost_map, best_pos, route_tables, waypoints, device,
              system, config, out, event, raised, progress, session, goal_of_grid>>
libVars == <<conbus, worker>>
searchVars == <<call, search, scan, conbus, worker>>
vars == <<position, imu, cost_map, best_pos, route_tables, waypoints, device,
          system, config, out, event, raised, progress, session, goal_of_grid,
          call, search, scan, conbus, worker>>

\* "waypoints" is bound either to a list made by "waypoints = []" or to one of
\* the lists inside a route table ("waypoints = wpts")
FreshList == [obj |-> "fresh", table |-> "", index |-> 0]

\* the elements of the list a reference is bound to
ListOf(ref, tables) ==
    IF ref.obj = "fresh" THEN <<>> ELSE tables[ref.table][ref.index + 1]

NoOutput == [path |-> None, debug |-> None]

-----------------------------------------------------------------------------
(* The planner node: inputs *)

\* number of leading waypoints of the configured route at which a pose fix is offered
MaxFixes == 1

Directions == {0, 1, 2}
\* waypoint pop distance: the default of 1.0 m and a wide 40 m (centimetres)
PopDistances == {100, 4000}

\* the registers after configure() (lines 80-84)
DefaultConfig ==
    [direction |-> 0, pop_distance |-> 100, use_waypoints |-> FALSE,
     use_imu_heading |-> TRUE]

\* the registers the node runs with: the defaults with another direction, or
\* with another pop distance and waypoints-only flag
Configs ==
    {[DefaultConfig EXCEPT !.direction = dd] : dd \in Directions}
    \cup {[DefaultConfig EXCEPT !.pop_distance = pp, !.use_waypoints = uw] :
             pp \in PopDistances, uw \in BOOLEAN}

\* the route the source's table holds for a mode and direction (empty if the
\* table has no such entry)
ConfiguredRoute(mode, direction) ==
    IF direction + 1 <= Len(RouteTables[TableOf(mode)])
    THEN RouteTables[TableOf(mode)][direction + 1]
    ELSE <<>>

\* a fix far from every route
FarFix == <<400000000, 0 - 900000000>>

Fixes(mode, direction) ==
    {ConfiguredRoute(mode, direction)[k] :
        k \in 1..(IF Len(ConfiguredRoute(mode, direction)) < MaxFixes
                  THEN Len(ConfiguredRoute(mode, direction)) ELSE MaxFixes)}
    \cup {FarFix}

\* heading of a Position message (milliradians) and yaw of an IMU message (degrees)
Thetas == {0}
Yaws == {0 - 90}

PoseMsgs(mode, direction) ==
    {[latitude |-> f[1], longitude |-> f[2], theta |-> t] :
        f \in Fixes(mode, direction), t \in Thetas}

\* grid messages: free, and a wall across the row ahead of the vehicle with a
\* gap at x = 0, 1
ObstacleSets ==
    {{}, {c \in Cells(MAP_RES, MAP_RES) : c[2] = robot_pos[2] - 1 /\ c[1] > 1}}

GridMsgs == {GridOf(MAP_RES, MAP_RES, [c \in S |-> 100]) : S \in ObstacleSets}

-----------------------------------------------------------------------------
(* The planner node: handlers *)

InitNode ==
    /\ position = None
    /\ imu = None
    /\ cost_map = None
    /\ best_pos = <<0, 0>>
    /\ route_tables = RouteTables
    /\ waypoints = FreshList
    /\ device = "READY"
    /\ system \in [state : {"DISABLED"}, mode : SystemModes]
    /\ config \in Configs
    /\ out = NoOutput
    /\ event = "configure"
    /\ raised = FALSE
    /\ progress = "reset"
    /\ session = "idle"
    /\ goal_of_grid = None

\* onImuReceived
onImuReceived(yaw) ==
    /\ ~raised
    /\ imu' = Some(yaw)
    /\ out' = NoOutput
    /\ event' = "onImuReceived"
    /\ UNCHANGED <<position, cost_map, best_pos, route_tables, waypoints, device,
                   system, config, raised, progress, session, goal_of_grid>>
    /\ UNCHANGED searchVars

\* onPoseReceived
onPoseReceived(msg) ==
    /\ ~raised
    /\ position' =
          IF config.use_imu_heading
          THEN Some([msg EXCEPT !.theta =
                            IF imu # None
                            THEN (IF imu[1] > 0 THEN imu[1] ELSE imu[1] + 360) * 1000
                            ELSE msg.theta])
          ELSE Some(msg)
    /\ progress' = IF progress = "reset" THEN "pose" ELSE progress
    /\ out' = NoOutput
    /\ event' = "onPoseReceived"
    /\ UNCHANGED <<imu, cost_map, best_pos, route_tables, waypoints, device,
                   system, config, raised, session, goal_of_grid>>
    /\ UNCHANGED searchVars

\* onReset without "cost_map = None"
onReset_KeepsGrid ==
    /\ ~raised
    /\ position' = None
    /\ best_pos' = <<0, 0>>
    /\ waypoints' = FreshList
    /\ progress' = "reset"
    /\ out' = NoOutput
    /\ event' = "onReset"
    /\ UNCHANGED <<imu, cost_map, goal_of_grid, route_tables, device, system, config,
                   raised, session>>
    /\ UNCHANGED searchVars

\* onReset
onReset ==
    /\ ~raised
    /\ position' = None
    /\ cost_map' = None
    /\ goal_of_grid' = None
    /\ best_pos' = <<0, 0>>
    /\ waypoints' = FreshList
    /\ progress' = "reset"
    /\ out' = NoOutput
    /\ event' = "onReset"
    /\ UNCHANGED <<imu, route_tables, device, system, config, raised, session>>
    /\ UNCHANGED searchVars

\* getWaypointsForDirection: the list object inside the table, or an IndexError
getWaypointsForDirection ==
    IF config.direction + 1 <= Len(route_tables[TableOf(system.mode)])
    THEN [obj |-> "route", table |-> TableOf(system.mode), index |-> config.direction]
    ELSE [obj |-> "IndexError", table |-> "", index |-> 0]

\* transition whose first test leaves out the device state: every update to
\* AUTONOMOUS loads the route
transition_ReloadsAlways(updated) ==
    /\ ~raised
    /\ system' = [system EXCEPT !.state = updated]
    /\ out' = NoOutput
    /\ event' = "transition"
    /\ IF updated = "AUTONOMOUS"
       THEN LET wpts == getWaypointsForDirection
            IN  IF wpts.obj = "IndexError"
                THEN /\ raised' = TRUE
                     /\ UNCHANGED <<waypoints, device, session>>
                ELSE /\ waypoints' = wpts
                     /\ device' = "OPERATING"
                     /\ session' = "entered"
                     /\ UNCHANGED raised
       ELSE IF updated # "AUTONOMOUS" /\ device = "OPERATING"
       THEN /\ waypoints' = FreshList
            /\ device' = "READY"
            /\ session' = "idle"
            /\ UNCHANGED raised
       ELSE UNCHANGED <<waypoints, device, raised, session>>
    /\ UNCHANGED <<position, imu, cost_map, best_pos, route_tables, config, progress,
                   goal_of_grid>>
    /\ UNCHANGED searchVars

\* transition(old, updated), called with the updated system state
transition(updated) ==
    /\ ~raised
    /\ system' = [system EXCEPT !.state = updated]
    /\ out' = NoOutput
    /\ event' = "transition"
    /\ IF updated = "AUTONOMOUS" /\ device = "READY"
       THEN LET wpts == getWaypointsForDirection
            IN  IF wpts.obj = "IndexError"
                THEN /\ raised' = TRUE
                     /\ UNCHANGED <<waypoints, device, session>>
                ELSE /\ waypoints' = wpts
                     /\ device' = "OPERATING"
                     /\ session' = "entered"
                     /\ UNCHANGED raised
       ELSE IF updated # "AUTONOMOUS" /\ device = "OPERATING"
       THEN /\ waypoints' = FreshList
            /\ device' = "READY"
            /\ session' = "idle"
            /\ UNCHANGED raised
       ELSE UNCHANGED <<waypoints, device, raised, session>>
    /\ UNCHANGED <<position, imu, cost_map, best_pos, route_tables, config, progress,
                   goal_of_grid>>
    /\ UNCHANGED searchVars

\* the early return of line 204 testing the pose only
GridIgnored_PoseOnly == position = None

\* the early return of onConfigSpaceReceived (line 204)
GridIgnored ==
    position = None \/ device # "OPERATING" \/ system.state # "AUTONOMOUS"

\* onConfigSpaceReceived
onConfigSpaceReceived(msg_data) ==
    /\ ~raised
    /\ event' = "onConfigSpaceReceived"
    /\ IF GridIgnored
       THEN /\ out' = NoOutput
            /\ UNCHANGED <<cost_map, best_pos, route_tables, raised, progress, session,
                           goal_of_grid>>
       ELSE LET r == ProcessGrid(msg_data, position[1], ListOf(waypoints, route_tables), config)
            IN  /\ route_tables' =
                      IF r.popped
                      THEN [route_tables EXCEPT ![waypoints.table][waypoints.index + 1] = r.waypoints]
                      ELSE route_tables
                /\ out' = [path |-> None, debug |-> r.debug]
                /\ raised' = r.raised
                /\ cost_map' = IF r.raised THEN cost_map ELSE Some(r.cost_map)
                /\ best_pos' = IF r.raised THEN best_pos ELSE r.best_pos
                /\ goal_of_grid' = IF r.raised THEN goal_of_grid ELSE Some(r.best_pos)
                /\ progress' = IF progress = "pose" THEN "grid" ELSE progress
                /\ session' = IF session = "entered" THEN "active" ELSE session
    /\ UNCHANGED <<position, imu, waypoints, device, system, config>>
    /\ UNCHANGED searchVars

\* the early return of makeMap (line 122)
MapIdle == position = None \/ cost_map = None

\* makeMap, the timer callback
makeMap ==
    /\ ~raised
    /\ event' = "makeMap"
    /\ IF MapIdle
       THEN /\ out' = NoOutput
            /\ UNCHANGED raised
       ELSE LET path == find_path_to_point(robot_pos, best_pos, cost_map[1], MAP_RES, MAP_RES)
            IN  /\ raised' = (path.status = "raised")
                /\ out' = IF path.status = "path"
                          THEN [path |-> Some([i \in 1..Len(path.cells) |->
                                                  pathToGlobalPose(path.cells[i])]),
                                debug |-> None]
                          ELSE NoOutput
    /\ UNCHANGED <<position, imu, cost_map, best_pos, route_tables, waypoints,
                   device, system, config, progress, session, goal_of_grid>>
    /\ UNCHANGED searchVars

Init ==
    /\ InitNode
    /\ call = None
    /\ search = None
    /\ scan = None
    /\ conbus = None
    /\ worker = None

Next ==
    \/ \E yaw \in Yaws : onImuReceived(yaw)
    \/ \E msg \in PoseMsgs(system.mode, config.direction) : onPoseReceived(msg)
    \/ \E msg_data \in GridMsgs : onConfigSpaceReceived(msg_data)
    \/ makeMap
    \/ \E updated \in SystemStates : transition(updated)
    \/ onReset

Spec == Init /\ [][Next]_vars

-----------------------------------------------------------------------------
(* find_path_to_point on its own *)

InitAStar ==
    /\ call \in Calls
    /\ search = AStarStart(call.start)
    /\ scan = None
    /\ conbus = None
    /\ worker = None
    /\ position = None
    /\ imu = None
    /\ cost_map = None
    /\ best_pos = <<0, 0>>
    /\ route_tables = RouteTables
    /\ waypoints = FreshList
    /\ device = "READY"
    /\ system = [state |-> "DISABLED", mode |-> "PRACTICE"]
    /\ config = DefaultConfig
    /\ out = NoOutput
    /\ event = "configure"
    /\ raised = FALSE
    /\ progress = "reset"
    /\ session = "idle"
    /\ goal_of_grid = None

\* one iteration of the while loop of find_path_to_point
AStarIterate ==
    /\ search.status = "running"
    /\ search' = AStarStep(search, call.goal, call.map, call.width, call.height)
    /\ UNCHANGED <<call, scan>>
    /\ UNCHANGED libVars
    /\ UNCHANGED nodeVars

NextAStar == AStarIterate

SpecAStar == InitAStar /\ [][NextAStar]_vars

\* the call runs on its thread until it returns: the loop is not suspended
\* for ever between two iterations
SpecAStarLive == InitAStar /\ [][NextAStar]_vars /\ WF_vars(AStarIterate)

-----------------------------------------------------------------------------
(* The frontier expansion of onConfigSpaceReceived, step by step *)

NoBias == [active |-> FALSE, theta |-> 0, heading |-> 0]

\* the loop's variables when "while depth < 50 and len(frontier) > 0" is first
\* reached: todo is what is left of curfrontier, scored collects
\* <<cell, score, depth>> of every cell visited, last is the cell visited by
\* the last step
ScanStart(res, grid_data, bias) ==
    [res |-> res, grid_data |-> grid_data, bias |-> bias, depth |-> 0,
     todo |-> FrontierStart(res).frontier, f |-> FrontierStart(res),
     scored |-> {}, last |-> None, status |-> "visiting"]

\* one iteration of "for pos in curfrontier", for any cell left in curfrontier
ScanVisitCell(pos) ==
    /\ scan.status = "visiting"
    /\ pos \in scan.todo
    /\ LET f == VisitCell(scan.res, scan.f, pos, scan.depth, scan.grid_data, scan.bias)
       IN  scan' = [scan EXCEPT
                      !.f = f,
                      !.todo = @ \ {pos},
                      !.scored = @ \cup {<<pos, CellCost(scan.res, pos, scan.depth, scan.bias),
                                            scan.depth>>},
                      !.last = Some(pos),
                      !.status = IF f.raised THEN "raised" ELSE @]
    /\ UNCHANGED <<call, search>>
    /\ UNCHANGED libVars
    /\ UNCHANGED nodeVars

\* the whole "for pos in curfrontier" loop of one pass, in row-major order
ScanPass ==
    /\ scan.status = "visiting"
    /\ scan.todo # {}
    /\ LET f == VisitFrom(scan.res, scan.f, IterOrder(scan.res, scan.todo), 1,
                          scan.depth, scan.grid_data, scan.bias)
       IN  scan' = [scan EXCEPT
                      !.f = f,
                      !.todo = {},
                      !.scored = @ \cup {<<pos, CellCost(scan.res, pos, scan.depth, scan.bias),
                                            scan.depth>> : pos \in scan.todo},
                      !.last = None,
                      !.status = IF f.raised THEN "raised" ELSE @]
    /\ UNCHANGED <<call, search>>
    /\ UNCHANGED libVars
    /\ UNCHANGED nodeVars

\* "depth += 1" and the loop test of line 249
ScanEndPass ==
    /\ scan.status = "visiting"
    /\ scan.todo = {}
    /\ scan' = IF scan.depth + 1 < MaxDepth /\ scan.f.frontier # {}
               THEN [scan EXCEPT !.depth = @ + 1, !.todo = scan.f.frontier]
               ELSE [scan EXCEPT !.depth = @ + 1, !.status = "done"]
    /\ UNCHANGED <<call, search>>
    /\ UNCHANGED libVars
    /\ UNCHANGED nodeVars

\* lines 277-278: the grid and the goal are cached
ScanCache ==
    /\ scan.status = "done"
    /\ scan' = [scan EXCEPT !.status = "cached"]
    /\ cost_map' = Some(scan.grid_data)
    /\ best_pos' = scan.f.temp_best_pos
    /\ goal_of_grid' = Some(scan.f.temp_best_pos)
    /\ event' = "onConfigSpaceReceived"
    /\ UNCHANGED <<position, imu, route_tables, waypoints, device, system, config,
                   out, raised, progress, session>>
    /\ UNCHANGED <<call, search>>
    /\ UNCHANGED libVars

\* the call of find_path_to_point by the next timer tick (line 126)
PlanTick ==
    /\ scan.status = "cached"
    /\ call = None
    /\ call' = [family |-> "tick", start |-> RobotPos(scan.res), goal |-> best_pos,
                map |-> cost_map[1], width |-> scan.res, height |-> scan.res]
    /\ search' = AStarStart(RobotPos(scan.res))
    /\ event' = "makeMap"
    /\ UNCHANGED <<position, imu, cost_map, best_pos, route_tables, waypoints, device,
                   system, config, out, raised, progress, session, goal_of_grid>>
    /\ UNCHANGED scan
    /\ UNCHANGED libVars

\* the node while a grid update is processed: a pose is stored, the device
\* operates, the system is autonomous
NodeOperating ==
    /\ position = Some([latitude |-> FarFix[1], longitude |-> FarFix[2], theta |-> 0])
    /\ imu = None
    /\ cost_map = None
    /\ best_pos = <<0, 0>>
    /\ route_tables = RouteTables
    /\ waypoints = FreshList
    /\ device = "OPERATING"
    /\ system = [state |-> "AUTONOMOUS", mode |-> "PRACTICE"]
    /\ config = DefaultConfig
    /\ out = NoOutput
    /\ event = "transition"
    /\ raised = FALSE
    /\ progress = "pose"
    /\ session = "entered"
    /\ goal_of_grid = None

\* the cells beside and ahead of the vehicle cell
Window(res) ==
    {c \in Cells(res, res) :
        /\ c # RobotPos(res)
        /\ Abs(c[1] - RobotPos(res)[1]) <= 1
        /\ c[2] \in {RobotPos(res)[2], RobotPos(res)[2] - 1}}

\* cost of a free cell (0, or 49: just passable) and of an obstacle cell (50)
FreeCosts == {0, ObstacleCost - 1}

\* grids with any set of obstacle cells in the window, every other cell free
FrontierGrids ==
    {[i \in 0..(FrontierRes * FrontierRes - 1) |->
         IF <<i % FrontierRes, i \div FrontierRes>> \in S THEN ObstacleCost ELSE free] :
        S \in SUBSET Window(FrontierRes), free \in FreeCosts}

\* no waypoint queued, or one queued straight ahead or to the left
ScanBiases ==
    {NoBias} \cup {[active |-> TRUE, theta |-> 0, heading |-> hd] : hd \in {0, Pi \div 2}}

InitFrontier ==
    /\ NodeOperating
    /\ scan \in {ScanStart(FrontierRes, g, b) : g \in FrontierGrids, b \in ScanBiases}
    /\ conbus = None
    /\ worker = None
    /\ call = None
    /\ search = None

NextFrontier ==
    \/ \E pos \in Cells(FrontierRes, FrontierRes) : ScanVisitCell(pos)
    \/ ScanEndPass
    \/ ScanCache

SpecFrontier == InitFrontier /\ [][NextFrontier]_vars

-----------------------------------------------------------------------------
(* One grid update and the next timer tick on the program's 80 x 80 grid *)

InitScenario ==
    /\ NodeOperating
    /\ scan = ScanStart(FullRes, ZeroGridOf(FullRes), NoBias)
    /\ conbus = None
    /\ worker = None
    /\ call = None
    /\ search = None

NextScenario ==
    \/ ScanPass
    \/ ScanEndPass
    \/ ScanCache
    \/ PlanTick
    \/ (call # None /\ AStarIterate)

SpecScenario == InitScenario /\ [][NextScenario]_vars

-----------------------------------------------------------------------------
(* The pose and IMU feeds over a wider range of messages *)

\* yaw of an IMU message in degrees: zero, negative, a full turn and beyond
WideYaws == {0, 0 - 90, 360, 370, 0 - 400}

\* the fix at latitude 0, longitude 0
ZeroFix == <<0, 0>>

WidePoseMsgs(mode, direction) ==
    PoseMsgs(mode, direction)
    \cup {[latitude |-> ZeroFix[1], longitude |-> ZeroFix[2], theta |-> t] : t \in Thetas}

\* the node after configure(), with the IMU-heading register as configured
\* (line 84) or cleared afterwards
InitPose ==
    /\ position = None
    /\ imu = None
    /\ cost_map = None
    /\ best_pos = <<0, 0>>
    /\ route_tables = RouteTables
    /\ waypoints = FreshList
    /\ device = "READY"
    /\ system = [state |-> "DISABLED", mode |-> "SIMULATION"]
    /\ config \in {[DefaultConfig EXCEPT !.use_imu_heading = u] : u \in BOOLEAN}
    /\ out = NoOutput
    /\ event = "configure"
    /\ raised = FALSE
    /\ progress = "reset"
    /\ session = "idle"
    /\ goal_of_grid = None
    /\ call = None
    /\ search = None
    /\ scan = None
    /\ conbus = None
    /\ worker = None

NextPose ==
    \/ \E yaw \in WideYaws : onImuReceived(yaw)
    \/ \E msg \in WidePoseMsgs(system.mode, config.direction) : onPoseReceived(msg)
    \/ \E msg_data \in GridMsgs : onConfigSpaceReceived(msg_data)
    \/ \E updated \in SystemStates : transition(updated)
    \/ onReset

SpecPose == InitPose /\ [][NextPose]_vars

-----------------------------------------------------------------------------
(* get_angle_diff on its own *)

\* angles in milliradians: the multiples of pi/2 over four turns, and angles
\* next to them
Angles ==
    {k * (Pi \div 2) : k \in (0 - 8)..8}
    \cup {1, 0 - 1, Pi - 1, Pi + 1, 1 - Pi, 0 - Pi - 1, 500, 0 - 2000}

InitAngles ==
    /\ call \in {[family |-> "angle", to_angle |-> a, from_angle |-> b] :
                    a \in Angles, b \in Angles}
    /\ search = <<>>
    /\ scan = None
    /\ conbus = None
    /\ worker = None
    /\ position = None
    /\ imu = None
    /\ cost_map = None
    /\ best_pos = <<0, 0>>
    /\ route_tables = RouteTables
    /\ waypoints = FreshList
    /\ device = "READY"
    /\ system = [state |-> "DISABLED", mode |-> "PRACTICE"]
    /\ config = DefaultConfig
    /\ out = NoOutput
    /\ event = "configure"
    /\ raised = FALSE
    /\ progress = "reset"
    /\ session = "idle"
    /\ goal_of_grid = None

\* get_angle_diff(to_angle, from_angle), then get_angle_diff(from_angle, to_angle):
\* "search" collects the two results
AngleDiffCall ==
    /\ Len(search) < 2
    /\ search' = Append(search,
                        IF Len(search) = 0
                        THEN get_angle_diff(call.to_angle, call.from_angle)
                        ELSE get_angle_diff(call.from_angle, call.to_angle))
    /\ UNCHANGED <<call, scan>>
    /\ UNCHANGED libVars
    /\ UNCHANGED nodeVars

NextAngles == AngleDiffCall

SpecAngles == InitAngles /\ [][NextAngles]_vars

-----------------------------------------------------------------------------
(* The configuration registers: Conbus (autonav_libs/__init__.py) *)

\* FLOAT_PRECISION; a float of the model is a whole number of
\* 1 / (FLOAT_PRECISION * FloatSub), ten times finer than a register stores
FLOAT_PRECISION == 10000000
FloatSub == 10

\* int(x) of Python: rounds towards zero
IntOf(n, k) == Sign(n) * (Abs(n) \div k)

\* data.to_bytes(4, byteorder="big", signed=True)
to_bytes(data) ==
    << (data \div 16777216) % 256, (data \div 65536) % 256,
       (data \div 256) % 256, data % 256 >>

\* int.from_bytes(byts, byteorder="big", signed=True) on four bytes
from_bytes(byts) ==
    (IF byts[1] >= 128 THEN byts[1] - 256 ELSE byts[1]) * 16777216
    + byts[2] * 65536 + byts[3] * 256 + byts[4]

\* AddressType.INTEGER.value = 0, FLOAT = 1, BOOL = 2 lead the stored bytes
intToBytes(data) == <<0, 0>> \o to_bytes(data)

floatToBytes(data) ==
    LET byts == intToBytes(IntOf(data, FloatSub))
    IN  <<1, 0>> \o SubSeq(byts, 3, Len(byts))

boolToBytes(data) == IF data THEN <<2, 0, 1>> ELSE <<2, 0, 0>>

\* readBytes: None for an address never written
readBytes(registers, address) ==
    IF address \in DOMAIN registers THEN Some(registers[address]) ELSE None

\* readInt: None, the integer of the last four bytes, or the exception
\* "Invalid integer size"
readInt(registers, address) ==
    LET byts == readBytes(registers, address)
    IN  IF byts = None THEN [raised |-> FALSE, value |-> None]
        ELSE IF Len(byts[1]) = 6
        THEN [raised |-> FALSE, value |-> Some(from_bytes(SubSeq(byts[1], 3, 6)))]
        ELSE [raised |-> TRUE, value |-> None]

\* readBool: bool(self.readInt(address)); bool(None) is False
readBool(registers, address) ==
    LET r == readInt(registers, address)
    IN  IF r.raised THEN r
        ELSE [raised |-> FALSE, value |-> Some(r.value # None /\ r.value[1] # 0)]

\* readFloat: self.readInt(address) / FLOAT_PRECISION, as the whole number of
\* 1 / FLOAT_PRECISION it is; None / float is a TypeError
readFloat(registers, address) ==
    LET r == readInt(registers, address)
    IN  IF r.raised \/ r.value = None THEN [raised |-> TRUE, value |-> None]
        ELSE [raised |-> FALSE, value |-> Some(r.value[1])]

\* the instance after __init__: no register; op, address, result and raised
\* describe the last call, written the last typed write to each address
ConbusStart ==
    [registers |-> [a \in {} |-> <<>>], published |-> None,
     op |-> "__init__", address |-> 0, result |-> None, raised |-> FALSE,
     written |-> [a \in {} |-> [kind |-> "", value |-> None]]]

\* write(address, data): stores the bytes and publishes a WRITE_ACK
write(op, address, data, kind, value) ==
    /\ conbus' = [conbus EXCEPT
                     !.registers = Put(@, address, data),
                     !.published = Some([address |-> address, data |-> data,
                                         opcode |-> "WRITE_ACK"]),
                     !.op = op, !.address = address, !.result = None, !.raised = FALSE,
                     !.written = Put(@, address, [kind |-> kind, value |-> Some(value)])]
    /\ UNCHANGED <<call, search, scan, worker>>
    /\ UNCHANGED nodeVars

writeInt(address, data) == write("writeInt", address, intToBytes(data), "int", data)
writeFloat(address, data) == write("writeFloat", address, floatToBytes(data), "float", data)
writeBool(address, data) == write("writeBool", address, boolToBytes(data), "bool", data)

\* a typed read: the result or the exception of the call
read(op, address, r) ==
    /\ conbus' = [conbus EXCEPT !.op = op, !.address = address,
                                !.result = r.value, !.raised = r.raised]
    /\ UNCHANGED <<call, search, scan, worker>>
    /\ UNCHANGED nodeVars

ReadIntCall(address) == read("readInt", address, readInt(conbus.registers, address))
ReadBoolCall(address) == read("readBool", address, readBool(conbus.registers, address))
ReadFloatCall(address) == read("readFloat", address, readFloat(conbus.registers, address))

\* the planner node before any message
NodeAtRest ==
    /\ position = None
    /\ imu = None
    /\ cost_map = None
    /\ best_pos = <<0, 0>>
    /\ route_tables = RouteTables
    /\ waypoints = FreshList
    /\ device = "READY"
    /\ system = [state |-> "DISABLED", mode |-> "PRACTICE"]
    /\ config = DefaultConfig
    /\ out = NoOutput
    /\ event = "configure"
    /\ raised = FALSE
    /\ progress = "reset"
    /\ session = "idle"
    /\ goal_of_grid = None

Addresses == {0, 1}

\* signed 32-bit integers: small ones, byte borders and both ends of the range
Int32s == {0, 1, 0 - 1, 255, 256, 0 - 256, 65536, 2147483647, 0 - 2147483647 - 1}

\* floats whose value times FLOAT_PRECISION fits in 32 bits: 0, 0.1 and 5.0
\* (the values the IMU node writes), 1.5e-7, -1.5e-7, -0.29, 21.47483647
ConbusFloats ==
    {0, FLOAT_PRECISION, 5 * FLOAT_PRECISION * FloatSub, 15, 0 - 15,
     0 - 29000000, 2147483647}

InitConbus ==
    /\ NodeAtRest
    /\ call = None
    /\ search = None
    /\ scan = None
    /\ worker = None
    /\ conbus = ConbusStart

NextConbus ==
    \/ \E address \in Addresses, data \in Int32s : writeInt(address, data)
    \/ \E address \in Addresses, data \in ConbusFloats : writeFloat(address, data)
    \/ \E address \in Addresses, data \in BOOLEAN : writeBool(address, data)
    \/ \E address \in Addresses : ReadIntCall(address)
    \/ \E address \in Addresses : ReadBoolCall(address)
    \/ \E address \in Addresses : ReadFloatCall(address)

SpecConbus == InitConbus /\ [][NextConbus]_vars

-----------------------------------------------------------------------------
(* The IMU node's worker thread: IMUNode.imuWorker (autonav_serial/src/imu.py) *)

\* the node after setup(): the device state is STANDBY (AutoNode.__init__),
\* the sensor is not connected, the thread is in its first sleep; settled
\* records that the other threads have made their last change of the state
WorkerStart ==
    [pc |-> "start", m_hasPublishedHeaders |-> FALSE, is_connected |-> FALSE,
     state |-> "STANDBY", imu_published |-> 0, gps_published |-> 0,
     settled |-> FALSE]

DeviceStates == {"STANDBY", "READY", "OPERATING"}

WorkerFrame ==
    /\ UNCHANGED <<call, search, scan, conbus>>
    /\ UNCHANGED nodeVars

Count(n) == IF n < MaxPublished THEN n + 1 ELSE n

\* time.sleep(1.5) before the loop (line 40)
WorkerWakes ==
    /\ worker.pc = "start"
    /\ worker' = [worker EXCEPT !.pc = "loop"]
    /\ WorkerFrame

\* lines 42-45: the header line is logged once
WorkerHeaders ==
    /\ worker.pc = "loop"
    /\ ~worker.m_hasPublishedHeaders
    /\ worker' = [worker EXCEPT !.m_hasPublishedHeaders = TRUE]
    /\ WorkerFrame

\* lines 47-55 and 59-62 with the sensor absent or the connection failing:
\* the warning is logged and the thread sleeps the retry time
WorkerConnectFails ==
    /\ worker.pc = "loop"
    /\ worker.m_hasPublishedHeaders
    /\ ~worker.is_connected
    /\ worker' = [worker EXCEPT !.pc = "retry"]
    /\ WorkerFrame

\* lines 56-57 and 63-64: self.setDeviceState(DeviceState.STANDBY); continue
WorkerSetStandby ==
    /\ worker.pc = "retry"
    /\ worker' = [worker EXCEPT !.state = "STANDBY", !.pc = "loop"]
    /\ WorkerFrame

\* lines 47-59 with the sensor connected already or connecting now
WorkerConnected ==
    /\ worker.pc = "loop"
    /\ worker.m_hasPublishedHeaders
    /\ worker' = [worker EXCEPT !.is_connected = TRUE, !.pc = "ready_test"]
    /\ WorkerFrame

\* line 66: if self.getDeviceState() != DeviceState.READY, then time.sleep(0.5)
WorkerReadyTest ==
    /\ worker.pc = "ready_test"
    /\ worker' = [worker EXCEPT
                     !.pc = IF worker.state # "READY" THEN "set_ready" ELSE "operating_test"]
    /\ WorkerFrame

\* line 68: self.setDeviceState(DeviceState.READY)
WorkerSetReady ==
    /\ worker.pc = "set_ready"
    /\ worker' = [worker EXCEPT !.state = "READY", !.pc = "operating_test"]
    /\ WorkerFrame

\* lines 70-71: if self.getDeviceState() != DeviceState.OPERATING: continue
WorkerOperatingTest ==
    /\ worker.pc = "operating_test"
    /\ worker' = [worker EXCEPT
                     !.pc = IF worker.state # "OPERATING" THEN "loop" ELSE "read"]
    /\ WorkerFrame

\* lines 73-76: the four reads of the sensor
WorkerRead ==
    /\ worker.pc = "read"
    /\ worker' = [worker EXCEPT !.pc = "publish_imu"]
    /\ WorkerFrame

\* lines 78-88
WorkerPublishImu ==
    /\ worker.pc = "publish_imu"
    /\ worker' = [worker EXCEPT !.imu_published = Count(@), !.pc = "publish_gps"]
    /\ WorkerFrame

\* lines 90-95
WorkerPublishGps ==
    /\ worker.pc = "publish_gps"
    /\ worker' = [worker EXCEPT !.gps_published = Count(@), !.pc = "sleep"]
    /\ WorkerFrame

\* lines 98-99: the log line and the sleep of the read rate
WorkerSleeps ==
    /\ worker.pc = "sleep"
    /\ worker' = [worker EXCEPT !.pc = "loop"]
    /\ WorkerFrame

\* another thread sets the device state
SystemSetsState(state) ==
    /\ ~worker.settled
    /\ worker.state # state
    /\ worker' = [worker EXCEPT !.state = state]
    /\ WorkerFrame

\* the system sets the device state to OPERATING, and nobody but the worker
\* changes it afterwards
SystemSetsOperating ==
    /\ ~worker.settled
    /\ worker' = [worker EXCEPT !.state = "OPERATING", !.settled = TRUE]
    /\ WorkerFrame

imuWorker ==
    \/ WorkerWakes
    \/ WorkerHeaders
    \/ WorkerConnectFails
    \/ WorkerSetStandby
    \/ WorkerConnected
    \/ WorkerReadyTest
    \/ WorkerSetReady
    \/ WorkerOperatingTest
    \/ WorkerRead
    \/ WorkerPublishImu
    \/ WorkerPublishGps
    \/ WorkerSleeps

InitWorker ==
    /\ NodeAtRest
    /\ call = None
    /\ search = None
    /\ scan = None
    /\ conbus = None
    /\ worker = WorkerStart

NextWorker ==
    \/ imuWorker
    \/ \E state \in DeviceStates : SystemSetsState(state)
    \/ SystemSetsOperating

\* the worker thread keeps running; the other threads act when they like
SpecWorker == InitWorker /\ [][NextWorker]_vars /\ WF_vars(imuWorker)

-----------------------------------------------------------------------------
(* Properties *)

\* the elements of the waypoint queue now and after the step
Queue == ListOf(waypoints, route_tables)
QueueNext == ListOf(waypoints', route_tables')

\* C1: every transition into autonomous while the device is ready loads the
\* complete fixed route of the mode and configured direction, whatever was
\* popped before, and no step changes the route tables.
C1_EntryLoadsFullRoute ==
    [][/\ route_tables' = route_tables
       /\ (event' = "transition" /\ device = "READY" /\ device' = "OPERATING")
             => QueueNext = ConfiguredRoute(system'.mode, config'.direction)]_vars

\* total cost of a cell path: step length plus a tenth of the cost of each cell entered
RECURSIVE PathCostFrom(_, _, _, _)
PathCostFrom(cells, i, map, width) ==
    IF i >= Len(cells) THEN 0
    ELSE (IF cells[i][1] # cells[i + 1][1] /\ cells[i][2] # cells[i + 1][2]
          THEN 1414 ELSE 1000)
         + map[Index(width, cells[i + 1])] * (SCALE \div 10)
         + PathCostFrom(cells, i + 1, map, width)

PathCost(cells, map, width) == PathCostFrom(cells, 1, map, width)

\* least total cost of an 8-connected path from the start to every cell
\* (Bellman-Ford: rounds that relax every cell in turn, up to the fixed point)
RECURSIVE RelaxRound(_, _, _)
RelaxRound(dist, i, c) ==
    IF i >= c.width * c.height THEN dist
    ELSE LET t == <<i % c.width, i \div c.width>>
             via == {dist[n] + (IF n[1] # t[1] /\ n[2] # t[2] THEN 1414 ELSE 1000)
                       + c.map[i] * (SCALE \div 10) :
                       n \in Neighbours(t, c.width, c.height)} \cup {dist[t]}
             least == CHOOSE m \in via : \A o \in via : m <= o
         IN  RelaxRound(Put(dist, t, least), i + 1, c)

RECURSIVE LeastCosts(_, _)
LeastCosts(dist, c) ==
    LET next == RelaxRound(dist, 0, c)
    IN  IF next = dist THEN dist ELSE LeastCosts(next, c)

MinCost(c) ==
    LeastCosts((c.start :> 0) @@ [t \in Cells(c.width, c.height) |-> Infinity], c)[c.goal]

\* C2: when every in-bounds neighbour of the goal is an obstacle cell and the
\* start is neither the goal nor a neighbour, the search ends without an
\* exception and returns None.
C2_SurroundedGoalHasNoPath ==
    (call.family = "surround" /\ search.status # "running") => search.status = "none"

\* C3: with a wall of obstacle cells across one row except a gap of two cells,
\* the start on one side and the goal on the other, a returned path contains
\* no obstacle cell.
C3_PathAvoidsWall ==
    (call.family = "wall" /\ search.status = "path")
        => \A i \in 1..Len(search.cells) :
              call.map[Index(call.width, search.cells[i])] < ObstacleCost

\* C4: a returned path has the least total cost among all 8-connected paths
\* from the start to the goal.
C4_PathHasLeastCost ==
    search.status = "path" => PathCost(search.cells, call.map, call.width) = MinCost(call)

\* C5: a grid update removes at most one waypoint, from the front of the queue,
\* also when the new front is within the pop distance too; a single queued
\* waypoint within the pop distance leaves the queue empty.
C5_AtMostOnePop ==
    [][event' = "onConfigSpaceReceived"
         => /\ QueueNext = Queue \/ (Queue # <<>> /\ QueueNext = Tail(Queue))
            /\ (/\ position # None /\ device = "OPERATING" /\ system.state = "AUTONOMOUS"
                /\ Len(Queue) = 1)
                  => (Reached(Queue[1], position[1], config.pop_distance)
                        => QueueNext = <<>>)]_vars

\* a grid update has just popped a waypoint (the diagnostic message lists the
\* shortened queue) and the new front is within the pop distance as well
C5_Witness ==
    /\ event = "onConfigSpaceReceived"
    /\ out.debug # None
    /\ Len(Queue) < Len(ConfiguredRoute(system.mode, config.direction))
    /\ Reached(Queue[1], position[1], config.pop_distance)

\* C6: after the mode has left autonomous, no timer tick publishes a path until
\* the mode has entered autonomous again and a grid update has been processed.
C6_NoPathAfterModeExit ==
    (event = "makeMap" /\ out.path # None) => session = "active"

\* C7: a reset clears the pose, the cached grid, the cached goal and the queue,
\* and from startup or a reset no timer tick publishes a path before a pose
\* update and, after it, a processed grid update.
C7_NoPathBeforePoseAndGrid ==
    /\ event = "onReset"
          => position = None /\ cost_map = None /\ best_pos = <<0, 0>> /\ Queue = <<>>
    /\ (event = "makeMap" /\ out.path # None) => progress = "grid"

\* a timer tick ran with a pose but without a processed grid update since the
\* reset, while the node is operating, and published nothing
C7_Witness ==
    /\ event = "makeMap"
    /\ out.path = None
    /\ position # None
    /\ progress = "pose"
    /\ device = "OPERATING"

\* C8: a grid update received without a stored pose, or while the device is
\* not operating, or while the system is not autonomous, leaves the cached
\* grid, the cached goal and the queue as they are and publishes no diagnostic
\* message.
C8_IgnoredGridChangesNothing ==
    [][(/\ event' = "onConfigSpaceReceived"
        /\ (position = None \/ device # "OPERATING" \/ system.state # "AUTONOMOUS"))
          => /\ cost_map' = cost_map
             /\ best_pos' = best_pos
             /\ QueueNext = Queue
             /\ out'.debug = None]_vars

\* a grid update was ignored after the mode left autonomous, with a pose and a
\* cached grid in place
C8_Witness ==
    /\ event = "onConfigSpaceReceived"
    /\ position # None
    /\ cost_map # None
    /\ system.state # "AUTONOMOUS"

\* C9: for every mode and direction index 0, 1, 2 a transition into autonomous
\* while the device is ready loads a route and moves the device to operating,
\* and no handler ends in an exception.
C9_EntryNeverRaises ==
    /\ ~raised
    /\ (event = "transition" /\ system.state = "AUTONOMOUS")
          => (device = "OPERATING" /\ waypoints.obj = "route")

\* C10: under the use-waypoints-only flag a processed grid update caches the
\* all-zero grid, and the goal and grid it caches are those it would cache for
\* any other received grid (same pose, queue and registers).
C10_FlagHidesGrid ==
    [][(/\ event' = "onConfigSpaceReceived"
        /\ position # None /\ device = "OPERATING" /\ system.state = "AUTONOMOUS"
        /\ config.use_waypoints)
          => /\ cost_map' = Some(ZeroGrid)
             /\ \A other \in GridMsgs :
                   LET r == ProcessGrid(other, position[1], Queue, config)
                   IN  cost_map' = Some(r.cost_map) /\ best_pos' = r.best_pos]_vars

\* a grid update was processed under the flag with a waypoint queued, and the
\* all-zero grid is cached
C10_Witness ==
    /\ event = "onConfigSpaceReceived"
    /\ config.use_waypoints
    /\ out.debug # None
    /\ cost_map = Some(ZeroGrid)
    /\ best_pos # robot_pos

\* number of orthogonal and of diagonal steps of a cell path
RECURSIVE DiagSteps(_, _)
DiagSteps(cells, i) ==
    IF i >= Len(cells) THEN 0
    ELSE (IF cells[i][1] # cells[i + 1][1] /\ cells[i][2] # cells[i + 1][2] THEN 1 ELSE 0)
         + DiagSteps(cells, i + 1)

OrthSteps(cells) == (Len(cells) - 1) - DiagSteps(cells, 1)

\* a + b*sqrt(2) >= sqrt(n) and a + b*sqrt(2) <= sqrt(n), decided exactly on the squares:
\* (a + b*sqrt(2))^2 = a^2 + 2*b^2 + 2*a*b*sqrt(2)
LengthAtLeast(a, b, n) ==
    LET m == n - a * a - 2 * b * b
    IN  m <= 0 \/ 8 * a * a * b * b >= m * m

LengthAtMost(a, b, n) ==
    LET u == n - a * a - 2 * b * b
    IN  u >= 0 /\ 8 * a * a * b * b <= u * u

\* the squared Euclidean distance from the start to the goal of the call
SquaredDistance ==
    (call.goal[1] - call.start[1]) * (call.goal[1] - call.start[1])
    + (call.goal[2] - call.start[2]) * (call.goal[2] - call.start[2])

\* the Euclidean length of the returned path is at least the distance from the
\* start to the goal and at most sqrt(2) times that distance
LengthWithinBounds ==
    /\ LengthAtLeast(OrthSteps(search.cells), DiagSteps(search.cells, 1), SquaredDistance)
    /\ LengthAtMost(OrthSteps(search.cells), DiagSteps(search.cells, 1), 2 * SquaredDistance)

AllPassable == \A i \in DOMAIN call.map : call.map[i] < ObstacleCost
AllEqual == \A i \in DOMAIN call.map : call.map[i] = call.map[0]

\* C11 as stated: on every grid whose cells are all passable (cost < 50), for
\* every start and goal,
\* the Euclidean length of the returned path lies between the Euclidean
\* distance and sqrt(2) times it.
C11_PassableLengthBounds ==
    (search.status = "path" /\ AllPassable) => LengthWithinBounds

\* C11 amended: on every grid whose cells all have the same passable cost, for
\* every start and goal, the Euclidean length of the returned path lies between
\* the Euclidean distance and sqrt(2) times it.
C11_UniformLengthBounds ==
    /\ (search.status # "running" /\ AllPassable /\ AllEqual) => search.status = "path"
    /\ (search.status = "path" /\ AllPassable /\ AllEqual) => LengthWithinBounds

\* a path with orthogonal and diagonal steps was returned on a grid of uniform
\* non-zero cost
C11_Witness ==
    /\ search.status = "path"
    /\ call.family = "uniform"
    /\ call.map[0] > 0
    /\ DiagSteps(search.cells, 1) > 0
    /\ OrthSteps(search.cells) > 0

\* C18: a returned path starts at the start, ends at the goal, stays inside the
\* grid, moves between 8-adjacent cells and visits no cell twice; when the
\* start is the goal it is the single start cell.
C18_PathWellFormed ==
    search.status = "path"
        => /\ Len(search.cells) >= 1
           /\ search.cells[1] = call.start
           /\ search.cells[Len(search.cells)] = call.goal
           /\ \A i \in 1..Len(search.cells) :
                 search.cells[i] \in Cells(call.width, call.height)
           /\ \A i \in 1..(Len(search.cells) - 1) :
                 search.cells[i + 1] \in Neighbours(search.cells[i], call.width, call.height)
           /\ \A i, j \in 1..Len(search.cells) :
                 search.cells[i] = search.cells[j] => i = j
           /\ call.start = call.goal => search.cells = <<call.start>>

\* a path of at least four cells was returned across the wall
C18_Witness ==
    /\ search.status = "path"
    /\ call.family = "wall"
    /\ Len(search.cells) >= 4

\* the two angles of the call are exactly opposite: they differ by pi modulo 2*pi
Opposite == (call.to_angle - call.from_angle - Pi) % TwoPi = 0

\* C14: get_angle_diff returns a value in (-pi, pi]: never -pi, and +pi when
\* the two angles are exactly opposite.
C14_DiffInHalfOpenInterval ==
    Len(search) >= 1
        => /\ search[1] > 0 - Pi
           /\ search[1] <= Pi
           /\ Opposite => search[1] = Pi

\* C15 as stated: get_angle_diff(a, b) is the negation of get_angle_diff(b, a)
\* for all angles a and b.
C15_Antisymmetric ==
    Len(search) = 2 => search[1] = 0 - search[2]

\* C15 amended: get_angle_diff(a, b) is the negation of get_angle_diff(b, a)
\* for all angles a and b that are not exactly opposite, multiples of 2*pi
\* apart included.
C15_AntisymmetricUnlessOpposite ==
    (Len(search) = 2 /\ ~Opposite) => search[1] = 0 - search[2]

\* both calls have returned for two angles more than a turn apart that are not
\* opposite, with a non-zero difference
C15_Witness ==
    /\ Len(search) = 2
    /\ ~Opposite
    /\ Abs(call.to_angle - call.from_angle) > TwoPi
    /\ search[1] # 0

\* C12: with the IMU-heading override configured and an IMU message received,
\* after every pose update the stored heading is the latest IMU yaw normalized
\* into [0, 360) degrees (the model keeps the heading in thousandths).
C12_HeadingIsNormalizedYaw ==
    (event = "onPoseReceived" /\ config.use_imu_heading /\ imu # None)
        => /\ position[1].theta = (imu[1] % 360) * 1000
           /\ position[1].theta >= 0
           /\ position[1].theta < 360 * 1000

\* C16: a pose update at latitude 0, longitude 0 is skipped, so the stored pose
\* is never that fix (a grid update pops waypoints and computes the heading
\* bias from the stored pose only).
C16_ZeroFixIsSkipped ==
    position # None
        => ~(position[1].latitude = ZeroFix[1] /\ position[1].longitude = ZeroFix[2])

\* C17: whenever a timer tick can search (a pose and a cached grid are in
\* place), the cached goal is the goal that was written together with the
\* cached grid by one processed grid update.
C17_GoalBelongsToGrid ==
    (position # None /\ cost_map # None)
        => goal_of_grid # None /\ best_pos = goal_of_grid[1]

\* a tick has searched a cached grid with obstacles towards a goal away from
\* the vehicle cell, and published the path
C17_Witness ==
    /\ event = "makeMap"
    /\ out.path # None
    /\ progress = "grid"
    /\ session = "active"
    /\ cost_map # Some(ZeroGrid)
    /\ best_pos # robot_pos

\* C13: on the 80 x 80 all-zero grid with the vehicle cell at (40, 76) and an
\* empty queue, the grid update runs its 50 passes and caches as goal the cell
\* of column 40 in the farthest row scored, within one cell of (40, 26); the
\* next tick returns a path of 49 to 51 cells from (40, 76) to that goal.
C13_StraightAheadGoalAndPath ==
    /\ scan.status = "cached"
          => /\ scan.depth = 50
             /\ best_pos[1] = 40
             /\ \A sc \in scan.scored : best_pos[2] <= sc[1][2]
             /\ Abs(best_pos[2] - 26) <= 1
             /\ cost_map = Some(ZeroGridOf(80))
    /\ (call # None /\ search.status # "running")
          => /\ search.status = "path"
             /\ search.cells[1] = <<40, 76>>
             /\ search.cells[Len(search.cells)] = best_pos
             /\ Len(search.cells) >= 49
             /\ Len(search.cells) <= 51

\* the tick after the grid update has returned its path
C13_Witness ==
    /\ scan.status = "cached"
    /\ scan.res = 80
    /\ call # None
    /\ search.status = "path"

\* a step of the expansion that has visited a cell
ScanVisited == scan'.depth = scan.depth /\ scan'.todo # scan.todo

\* C19: every cell that enters the frontier is inside the grid, has a cost
\* below 50, lies on the vehicle's row or farther forward and is the up, left
\* or right neighbour of an explored cell; no cell is scored twice, and the
\* removal from the frontier never fails.
C19_FrontierCellsAreValid ==
    [][ScanVisited
         => LET pos == scan'.last[1]
                res == scan.res
            IN  /\ ~scan'.f.raised
                /\ (pos[1] + res * pos[2]) \notin scan.f.explored
                /\ \A sc \in scan.scored : sc[1] # pos
                /\ \A c \in scan'.f.frontier \ scan.f.frontier :
                      /\ c \in Cells(res, res)
                      /\ scan.grid_data[c[1] + res * c[2]] < 50
                      /\ c[2] <= RobotPos(res)[2]
                      /\ \/ (c[1] + res * (c[2] + 1)) \in scan'.f.explored
                         \/ c[1] >= 1 /\ (c[1] - 1 + res * c[2]) \in scan'.f.explored
                         \/ c[1] + 1 < res /\ (c[1] + 1 + res * c[2]) \in scan'.f.explored]_vars

\* an expansion on a grid with obstacle cells and just-passable free cells has
\* ended after scoring more than eight cells
C19_Witness ==
    /\ scan # None
    /\ scan.status = "cached"
    /\ Cardinality(scan.scored) > 8
    /\ \E i \in DOMAIN scan.grid_data : scan.grid_data[i] >= 50
    /\ \E i \in DOMAIN scan.grid_data : scan.grid_data[i] = 49

\* C20: with an empty queue, after every step the selected cell is a scored
\* cell whose score (MAP_RES - y) * 1.3 + depth * 2.2 no scored cell exceeds,
\* a cell of equal score never replaces it, and it is the goal that is cached.
C20_GoalHasMaximalScore ==
    [][~scan.bias.active
         => /\ \A sc \in scan'.scored :
                  /\ sc[2] = (scan.res - sc[1][2]) * 13 + sc[3] * 22
                  /\ sc[2] <= scan'.f.best_pos_cost
            /\ scan'.scored # {}
                  => \E sc \in scan'.scored :
                        sc[1] = scan'.f.temp_best_pos /\ sc[2] = scan'.f.best_pos_cost
            /\ scan'.f.temp_best_pos # scan.f.temp_best_pos
                  => scan'.f.best_pos_cost > scan.f.best_pos_cost
            /\ scan'.status = "cached" => best_pos' = scan'.f.temp_best_pos]_vars

\* a goal away from the vehicle cell has been cached with an empty queue after
\* another cell of the same score was visited
C20_Witness ==
    /\ scan # None
    /\ scan.status = "cached"
    /\ ~scan.bias.active
    /\ best_pos # RobotPos(scan.res)
    /\ \E sc \in scan.scored : sc[1] # best_pos /\ sc[2] = scan.f.best_pos_cost

\* the cells of the open list, of the heap, and the cells that an iteration
\* has appended to the open list after removing the popped one
OpenCells(s) == {s.open_set[i] : i \in 1..Len(s.open_set)}
HeapCells(s) == {e[2] : e \in s.next_current}
Opened == OpenCells(search') \ (OpenCells(search) \ {HeapMin(search.next_current)[2]})

\* C21: find_path_to_point terminates on every grid of costs from 0 up: the
\* open list and the heap hold the same cells, each once, so no pop fails; a
\* score never grows and a cell that had a score is opened again only with a
\* strictly smaller one; the loop ends by popping the goal or with an empty
\* open list.
C21_SearchTerminates ==
    /\ [](/\ search.status # "raised"
          /\ search.status = "running"
                => /\ OpenCells(search) = HeapCells(search)
                   /\ Cardinality(OpenCells(search)) = Len(search.open_set)
                   /\ Cardinality(search.next_current) = Len(search.open_set)
          /\ search.status = "none" => Len(search.open_set) = 0
          /\ search.status = "path"
                => search.cells[Len(search.cells)] = call.goal)
    /\ [][/\ \A c \in DOMAIN search.gScore : search'.gScore[c] <= search.gScore[c]
          /\ search'.status = "running"
                => \A c \in Opened \cap DOMAIN search.gScore :
                      search'.gScore[c] < search.gScore[c]]_vars
    /\ <>(search.status \in {"path", "none"})

\* a search has returned its path after opening a removed cell again
C21_Witness ==
    /\ search.status = "path"
    /\ search.reopened # {}
    /\ Len(search.cells) > 2

\* C22: a reset leaves the device state, the system state and the route
\* tables as they are and binds the queue to a new empty list; while the
\* device operates with an empty queue, as it does after a reset in
\* autonomous mode, every step leaves the queue empty, and the device stops
\* operating only when the mode leaves autonomous (the route is loaded again
\* on the next entry).
C22_QueueStaysEmptyAfterReset ==
    [][/\ (event' = "onReset" /\ position' = None /\ cost_map' = None)
            => /\ device' = device
               /\ system' = system
               /\ route_tables' = route_tables
               /\ waypoints' = FreshList
       /\ (device = "OPERATING" /\ ListOf(waypoints, route_tables) = <<>>)
            => /\ ListOf(waypoints', route_tables') = <<>>
               /\ device' = "OPERATING" \/ system'.state # "AUTONOMOUS"]_vars

\* after a reset in autonomous mode (the device operates and the queue is a
\* new list, not a route's) a pose and a grid have arrived and a tick has
\* published a path
C22_Witness ==
    /\ device = "OPERATING"
    /\ system.state = "AUTONOMOUS"
    /\ waypoints = FreshList
    /\ event = "makeMap"
    /\ out.path # None

\* the last typed write to the address of the last call
LastWritten == conbus.written[conbus.address]

\* C23: a typed read after the matching typed write of the same address
\* returns the value written without raising: readInt after writeInt,
\* readBool after writeBool, readFloat after writeFloat to within
\* 1 / FLOAT_PRECISION.
C23_TypedRoundTrip ==
    /\ (conbus.op = "readInt" /\ conbus.address \in DOMAIN conbus.written
          /\ LastWritten.kind = "int")
          => ~conbus.raised /\ conbus.result = LastWritten.value
    /\ (conbus.op = "readBool" /\ conbus.address \in DOMAIN conbus.written
          /\ LastWritten.kind = "bool")
          => ~conbus.raised /\ conbus.result = LastWritten.value
    /\ (conbus.op = "readFloat" /\ conbus.address \in DOMAIN conbus.written
          /\ LastWritten.kind = "float")
          => /\ ~conbus.raised
             /\ Abs(conbus.result[1] * FloatSub - LastWritten.value[1]) < FloatSub

\* C24: with the sensor connected, once the system has set the device state
\* to OPERATING and nobody else changes it, no step of the worker takes the
\* device out of OPERATING, and the worker eventually reads the sensor and
\* publishes an IMU message and a GPS message.
C24_WorkerPublishesWhenOperating ==
    /\ [][(worker.is_connected /\ worker.settled /\ worker.state = "OPERATING")
            => worker'.state = "OPERATING"]_vars
    /\ [](worker.is_connected /\ worker.settled /\ worker.state = "OPERATING"
            => <>(worker.pc = "sleep" /\ worker.imu_published > 0
                    /\ worker.gps_published > 0))

=============================================================================
